---- MODULE Spec2Model ----
(***************************************************************************)
(* The DOM takeover engine of cascade-multiagent: the CDP controller       *)
(* (connect, disconnect, mountCustomUI, restoreUI, getMountStatus,         *)
(* getResponse, the event bridges) and the in-page custom UI module        *)
(* (createUI, mount, destroyOriginalUI with its MutationObserver,          *)
(* addPanelToUI, restoreOriginalUI, the toolbar's close button).           *)
(*                                                                         *)
(* Spec         the mount / unmount state machine against a host document  *)
(*              that inserts and removes conversation containers and tabs. *)
(* SpecResponse the getResponse poll loop against a transcript the host    *)
(*              changes; time is counted in ticks of 100 ms.               *)
(* SpecStream   the same loop against a transcript that only grows.        *)
(* SpecSend     one send call on a connected session.                      *)
(* SpecPanels   spawnCascade, listPanels and getPanelState calls.          *)
(* SpecSnapshot extract() and the rendering of its conversations.          *)
(* SpecMountSteps  one mountCustomUI call, one in-page step at a time.     *)
(* SpecFrozen   the sub-panels' content against a host that edits.         *)
(* SpecSubSend  the send control of a sub-panel.                           *)
(* SpecSession  connect and disconnect, connect failing at any await.      *)
(* SpecSendSteps   one send call, one awaited step at a time, against a    *)
(*              host that inserts and removes containers.                  *)
(* SpecStreamFair and SpecResponseFair add the event loop's fairness.      *)
(***************************************************************************)
EXTENDS Integers, Sequences, FiniteSets, TLC

\* ---------------------------------------------------------------- bounds
\* distinct '.chat-client-root' nodes the host ever creates
MaxPanelNodes == 2
\* evaluations of the custom-ui module (one per mountCustomUI that loads it)
MaxMounts == 2
\* operations (controller calls, page events, host mutations) in one run
MaxOps == 6

PanelNodes == 1..MaxPanelNodes
Instances == 1..MaxMounts
\* the tab bar holds one Cascade tab node
TabNodes == {1}

\* ---------------------------------------------------------------- elements
\* An element of the host document that the engine hides or shows.
PanelEl(n) == <<"panel", n>>
TabEl(t) == <<"tab", t>>
AuxBar == <<"aux", 0>>
Sidebar == <<"sidebar", 0>>
NullEl == <<"null", 0>>
Elems == {PanelEl(n) : n \in PanelNodes} \cup {TabEl(t) : t \in TabNodes} \cup {AuxBar, Sidebar}
\* values of el.style.display
Display == {"", "none"}

\* no '#cascade-hub-ui' in the document
NoRoot == [owner |-> 0, panels |-> <<>>, badge |-> 0]
\* mountedUI = null
NullUI == [null |-> TRUE]
\* a freshly evaluated custom-ui module: panelObserver = null, panelCount = 0
FreshInstance == [observing |-> FALSE, processed |-> {}, panelCount |-> 0]

VARIABLES
  browser, page, cdpClient,  \* the controller's session handles ("null" or "handle")
  mountedUI,                 \* the controller's Mount Record
  calls,                     \* mountCustomUI calls that reached the module load
  dom,                       \* the host document
  inst,                      \* per module instance: panelObserver, processedPanels, panelCount
  timers,                    \* pending setTimeout(addPanelToUI + hideElement) callbacks
  listeners,                 \* bridge listener sets installed on window
  spawning,                  \* spawnCascade calls in flight for the bridge
  lastOp, prevOp, ret,       \* history: the last two operations and the last return value
  mountHid,                  \* history: the elements the last mountCustomUI hid
  ops,                       \* history: the number of operations so far
  resp,                      \* the getResponse poll loop and its transcript
  io                         \* the panels' compose surfaces and the controller call made on them

vars == <<browser, page, cdpClient, mountedUI, calls, dom, inst, timers, listeners,
          spawning, lastOp, prevOp, ret, mountHid, ops, resp, io>>
sessionVars == <<browser, page, cdpClient>>
pageVars == <<dom, inst, timers, listeners>>

\* ---------------------------------------------------------------- helpers
Range(s) == {s[i] : i \in DOMAIN s}
Remove(s, x) == SelectSeq(s, LAMBDA y : y /= x)
PanelElems(d) == {PanelEl(n) : n \in Range(d.panels)}
TabElems(d) == {TabEl(t) : t \in d.tabs}
Visible(d, el) == d.style[el] /= "none"
RootPresent == dom.root.owner /= 0
Observers == {i \in Instances : inst[i].observing}

\* hideElement written with el.remove() instead of display suppression
HideElementRemoves(d, el) ==
  IF el /= NullEl /\ d.style[el] /= "none"
  THEN [d |-> [d EXCEPT !.style[el] = "none",
                        !.panels = SelectSeq(@, LAMBDA n : PanelEl(n) /= el)],
        hidden |-> TRUE]
  ELSE [d |-> d, hidden |-> FALSE]

\* hideElement: sets display none unless the element is null or already hidden;
\* returns whether it hid the element
HideElement(d, el) ==
  IF el /= NullEl /\ d.style[el] /= "none"
  THEN [d |-> [d EXCEPT !.style[el] = "none"], hidden |-> TRUE]
  ELSE [d |-> d, hidden |-> FALSE]

\* forEach(hideElement) over a node list, counting the elements hidden
RECURSIVE HideAll(_, _)
HideAll(d, S) ==
  IF S = {} THEN [d |-> d, hidden |-> 0]
  ELSE LET el == CHOOSE x \in S : TRUE
           r == HideElement(d, el)
           rest == HideAll(r.d, S \ {el})
       IN [d |-> rest.d, hidden |-> rest.hidden + (IF r.hidden THEN 1 ELSE 0)]

\* forEach(el => el.style.display = '') over a node list
ShowAll(d, S) == [d EXCEPT !.style = [el \in Elems |-> IF el \in S THEN "" ELSE @[el]]]

\* document.getElementById('workbench.parts.auxiliarybar'), document.querySelector('.sidebar')
AuxBarOf(d) == IF d.aux THEN AuxBar ELSE NullEl
SidebarOf(d) == IF d.sidebar THEN Sidebar ELSE NullEl

\* extract(): one panel descriptor and one conversation per '.chat-client-root',
\* in document order; the document is not changed
Extract(d) == [panels |-> d.panels, conversations |-> [k \in DOMAIN d.panels |-> [index |-> k - 1]]]

\* createPanel(conversation, index, extraction): a sub-panel carrying its index and
\* _cascadeRefs.originalPanel (0 for null); src is the container it was read from
CreatePanel(index, originalPanel, src) ==
  [index |-> index, originalPanel |-> originalPanel, src |-> src]

\* createUI(extraction): the in-memory tree (badge = conversations.length, one
\* sub-panel per conversation); injectStyles() adds the style element to the
\* live document's head
CreateUI(d, i, extraction) ==
  [root |-> [owner |-> i,
             panels |-> [k \in DOMAIN extraction.conversations |->
                          CreatePanel(k - 1, extraction.panels[k], extraction.panels[k])],
             badge |-> Len(extraction.conversations)],
   d |-> [d EXCEPT !.styleTag = TRUE]]

\* mount(customUI): remove every existing root, stopObserver() of THIS module
\* instance (freshly evaluated, so its panelObserver is null), append the root,
\* setCustomUIRef
Mount(d, ui) == [d EXCEPT !.root = ui.root]

\* destroyOriginalUI(): hide the panels, the auxiliary bar and the Cascade tabs
DestroyOriginalUI(d) ==
  LET a == HideAll(d, PanelElems(d))
      b == HideElement(a.d, AuxBarOf(a.d))
      c == HideAll(b.d, TabElems(b.d))
  IN [d |-> c.d, hidden |-> a.hidden + (IF b.hidden THEN 1 ELSE 0) + c.hidden]

\* stopObserver() of one module instance
StopObserver(is, i) == [is EXCEPT ![i].observing = FALSE]

\* restoreOriginalUI() of module instance i (the close button's handler body
\* after it removed the root)
RestoreOriginalUI(d) ==
  LET a == ShowAll(d, PanelElems(d))
      b == IF d.aux THEN ShowAll(a, {AuxBar}) ELSE a
  IN [b EXCEPT !.root = NoRoot]

\* the page.evaluate body of restoreUI
RestoreUIPage(d) ==
  LET a == [d EXCEPT !.root = NoRoot]
      b == ShowAll(a, PanelElems(a))
  IN IF d.sidebar THEN ShowAll(b, {Sidebar}) ELSE b

\* the MutationObserver callback of every connected observer for one added
\* '.chat-client-root' node: unprocessed nodes are recorded and scheduled
ObserveAdded(is, n) ==
  [i \in Instances |->
     IF is[i].observing /\ n \notin is[i].processed
     THEN [is[i] EXCEPT !.processed = @ \cup {n}]
     ELSE is[i]]
ScheduledFor(is, n) == {<<i, n>> : i \in {j \in Instances : is[j].observing /\ n \notin is[j].processed}}

\* addPanelToUI putting the new sub-panel in place of the container's children
AddPanelToUIReplaces(d, is, i, n) ==
  IF d.root.owner = 0
  THEN [d |-> d, is |-> is, added |-> FALSE]
  ELSE LET newIndex == is[i].panelCount
       IN [d |-> [d EXCEPT !.root.panels = <<CreatePanel(newIndex, 0, n)>>,
                           !.root.badge = newIndex + 1],
           is |-> [is EXCEPT ![i].panelCount = newIndex + 1],
           added |-> TRUE]

\* addPanelToUI(nativePanel) of module instance i: nothing without a
\* '#panels-container' in the document; otherwise a sub-panel with index
\* panelCount++ is appended and the badge is set to panelCount
AddPanelToUI(d, is, i, n) ==
  IF d.root.owner = 0
  THEN [d |-> d, is |-> is, added |-> FALSE]
  ELSE LET newIndex == is[i].panelCount
       IN [d |-> [d EXCEPT !.root.panels = Append(@, CreatePanel(newIndex, 0, n)),
                           !.root.badge = newIndex + 1],
           is |-> [is EXCEPT ![i].panelCount = newIndex + 1],
           added |-> TRUE]

\* window.location.reload(): the page's scripts, observers, timers, listeners,
\* inline styles and the replacement root are gone; the host renders its panels again
Reload(d) ==
  [d EXCEPT !.style = [el \in Elems |-> ""], !.root = NoRoot, !.styleTag = FALSE]

\* restoreUI's early return without the mountedUI test
NotMountedPageOnly == page = "null"

\* restoreUI's early return: if (!page || !mountedUI)
NotMounted == page = "null" \/ mountedUI = NullUI

\* return values, as far as the properties read them
LoadError == "Mount failed"
BridgeError == "Mount bridge failed"
Ok == [ok |-> TRUE, error |-> ""]
Err(e) == [ok |-> FALSE, error |-> e]

\* history: the operation before the last one was a successful mountCustomUI
Hist(op) == /\ ops < MaxOps
            /\ ops' = ops + 1
            /\ lastOp' = op
            /\ prevOp' = IF lastOp = "mountCustomUI" /\ ret.ok THEN "mountCustomUI" ELSE "other"

\* history after an operation that no property singles out
Other == Hist("other") /\ ret' = Ok /\ mountHid' = {}

\* ---------------------------------------------------------------- initial state
NoResp == [pc |-> "idle"]
\* no controller call on the panels is under study
NoIO == [op |-> "none"]

\* the module's state before connect(), and after a connect() that succeeded
InitSession == browser = "null" /\ page = "null" /\ cdpClient = "null"
Connected == browser = "handle" /\ page = "handle" /\ cdpClient = "handle"

InitPage ==
  /\ mountedUI = NullUI
  /\ calls = 0
  /\ \E k \in 0..MaxPanelNodes :
       dom = [panels |-> [j \in 1..k |-> j], style |-> [el \in Elems |-> ""],
              tabs |-> {}, aux |-> TRUE, sidebar |-> TRUE, root |-> NoRoot, styleTag |-> FALSE]
  /\ inst = [i \in Instances |-> FreshInstance]
  /\ timers = {}
  /\ listeners = 0
  /\ spawning = [inFlight |-> 0, beforeCount |-> 0]
  /\ lastOp = "init" /\ prevOp = "other" /\ ret = Ok
  /\ mountHid = {}
  /\ ops = 0

InitEngine == InitSession /\ InitPage

Init == InitEngine /\ resp = NoResp /\ io = NoIO

\* ---------------------------------------------------------------- the controller
\* connect(port): puppeteer.connect, browser.pages(), createCDPSession in turn;
\* each may reject and leaves the handles assigned so far
ConnectOutcomes == {"ok", "unreachable", "nopage", "nosession"}
Connect(o) ==
  /\ browser' = IF o = "unreachable" THEN browser ELSE "handle"
  /\ page' = CASE o = "unreachable" -> page
               [] o = "nopage" -> "null"
               [] OTHER -> "handle"
  /\ cdpClient' = IF o = "ok" THEN "handle" ELSE cdpClient
  /\ ret' = IF o = "ok" THEN Ok ELSE Err("ConnectionError")
  /\ Hist("connect") /\ mountHid' = {}
  /\ UNCHANGED <<mountedUI, calls, dom, inst, timers, listeners, spawning, resp, io>>

\* disconnect() without the test of browser: browser.disconnect() on null throws
DisconnectUnguarded ==
  /\ IF browser /= "null"
     THEN browser' = "null" /\ page' = "null" /\ cdpClient' = "null" /\ ret' = Ok
     ELSE UNCHANGED sessionVars /\ ret' = Err("TypeError")
  /\ Hist("disconnect") /\ mountHid' = {}
  /\ UNCHANGED <<mountedUI, calls, dom, inst, timers, listeners, spawning, resp, io>>

\* disconnect(): clears the three handles when a browser is connected
Disconnect ==
  /\ IF browser /= "null"
     THEN browser' = "null" /\ page' = "null" /\ cdpClient' = "null"
     ELSE UNCHANGED sessionVars
  /\ ret' = Ok
  /\ Hist("disconnect") /\ mountHid' = {}
  /\ UNCHANGED <<mountedUI, calls, dom, inst, timers, listeners, spawning, resp, io>>

\* getMountStatus()
GetMountStatus == mountedUI

\* mountCustomUI without its connection test
MountNeverNotConnected == FALSE
\* mountCustomUI's first test: if (!page) throw new Error('Not connected...')
MountNotConnected == page = "null"

\* mountCustomUI(): f is where the call fails: "load" (reading or evaluating the
\* module sources), "bridge" (page.exposeFunction rejects in setupEventBridges)
\* or "none"
FailPoints == {"none", "load", "bridge"}
MountCustomUI(f) ==
  /\ Hist("mountCustomUI")
  /\ UNCHANGED <<sessionVars, timers, spawning, resp, io>>
  /\ IF MountNotConnected
     THEN /\ ret' = Err("Not connected")
          /\ UNCHANGED <<mountedUI, calls, dom, inst, listeners, mountHid>>
     ELSE /\ calls < MaxMounts
          /\ calls' = calls + 1
          /\ IF f = "load"
             THEN /\ ret' = Err(LoadError)
                  /\ UNCHANGED <<mountedUI, dom, inst, listeners, mountHid>>
             ELSE LET i == calls + 1
                      extraction == Extract(dom)
                      ui == CreateUI(dom, i, extraction)
                      mounted == Mount(ui.d, ui)
                      destroyed == DestroyOriginalUI(mounted)
                      result == [call |-> i, success |-> TRUE,
                                 mounted |-> destroyed.d.root.owner /= 0]
                  IN /\ dom' = destroyed.d
                     /\ inst' = [StopObserver(inst, i) EXCEPT
                                   ![i] = [observing |-> TRUE, processed |-> {},
                                           panelCount |-> Len(ui.root.panels)]]
                     /\ mountedUI' = result
                     /\ mountHid' = {el \in Elems : Visible(dom, el) /\ ~Visible(destroyed.d, el)}
                     /\ IF f = "bridge"
                        THEN listeners' = listeners /\ ret' = Err(BridgeError)
                        ELSE listeners' = listeners + 1 /\ ret' = Ok

\* the page.evaluate body of mountCustomUI run as module instance i on document
\* d: extract, createUI, mount, destroyOriginalUI, and the result it returns
MountPage(d, is, i) ==
  LET extraction == Extract(d)
      ui == CreateUI(d, i, extraction)
      mounted == Mount(ui.d, ui)
      destroyed == DestroyOriginalUI(mounted)
  IN [dom |-> destroyed.d,
      inst |-> [StopObserver(is, i) EXCEPT
                  ![i] = [observing |-> TRUE, processed |-> {},
                          panelCount |-> Len(ui.root.panels)]],
      result |-> [call |-> i, success |-> TRUE,
                  panelCount |-> Len(extraction.panels),
                  destroyed |-> destroyed.hidden,
                  mounted |-> destroyed.d.root.owner /= 0]]

\* restoreUI()
RestoreUI ==
  /\ Hist("restoreUI")
  /\ UNCHANGED <<sessionVars, calls, inst, timers, listeners, spawning, mountHid, resp, io>>
  /\ IF NotMounted
     THEN /\ ret' = Err("UI not mounted")
          /\ UNCHANGED <<mountedUI, dom>>
     ELSE /\ dom' = RestoreUIPage(dom)
          /\ mountedUI' = NullUI
          /\ ret' = Ok

\* ---------------------------------------------------------------- the page
\* the toolbar's close button: remove the root, then restoreOriginalUI() of the
\* module instance that built the toolbar
CloseButton ==
  /\ RootPresent
  /\ dom' = RestoreOriginalUI(dom)
  /\ inst' = StopObserver(inst, dom.root.owner)
  /\ Other
  /\ UNCHANGED <<sessionVars, mountedUI, calls, timers, listeners, spawning, resp, io>>

\* the deferred part of the observer callback: addPanelToUI(node); hideElement(node)
TimerFire(i, n) ==
  /\ <<i, n>> \in timers
  /\ LET a == AddPanelToUI(dom, inst, i, n)
     IN /\ dom' = HideElement(a.d, PanelEl(n)).d
        /\ inst' = a.is
  /\ timers' = timers \ {<<i, n>>}
  /\ Other
  /\ UNCHANGED <<sessionVars, mountedUI, calls, listeners, spawning, resp, io>>

\* ---------------------------------------------------------------- the host
\* the host inserts a conversation container (a new node, or one it had taken
\* out) at index 0; every connected observer gets the mutation record
HostInsertPanel(n) ==
  /\ n \notin Range(dom.panels)
  /\ dom' = [dom EXCEPT !.panels = <<n>> \o @]
  /\ inst' = ObserveAdded(inst, n)
  /\ timers' = timers \cup ScheduledFor(inst, n)
  /\ Other
  /\ UNCHANGED <<sessionVars, mountedUI, calls, listeners, spawning, resp, io>>

\* the host takes a conversation container out of the document
HostRemovePanel(n) ==
  /\ n \in Range(dom.panels)
  /\ dom' = [dom EXCEPT !.panels = Remove(@, n)]
  /\ Other
  /\ UNCHANGED <<sessionVars, mountedUI, calls, inst, timers, listeners, spawning, resp, io>>

\* the host inserts a Cascade tab; a connected observer hides it in its callback
HostInsertTab(t) ==
  /\ t \notin dom.tabs
  /\ LET d == [dom EXCEPT !.tabs = @ \cup {t}]
     IN dom' = IF Observers /= {} THEN HideElement(d, TabEl(t)).d ELSE d
  /\ Other
  /\ UNCHANGED <<sessionVars, mountedUI, calls, inst, timers, listeners, spawning, resp, io>>

\* ---------------------------------------------------------------- the bridge
\* the toolbar's "+ New" button: every installed 'cascade-spawn-panel' listener
\* calls spawnCascade, which first counts the panels
NewButton ==
  /\ RootPresent /\ listeners > 0 /\ spawning.inFlight = 0
  /\ page /= "null" /\ cdpClient /= "null"
  /\ spawning' = [inFlight |-> listeners, beforeCount |-> Len(dom.panels)]
  /\ Other
  /\ UNCHANGED <<sessionVars, mountedUI, calls, dom, inst, timers, listeners, resp, io>>

\* one spawnCascade call returns: spawned = afterCount > beforeCount, and the
\* listener reloads the page when spawned
SpawnFinish ==
  /\ spawning.inFlight > 0
  /\ LET spawned == page /= "null" /\ Len(dom.panels) > spawning.beforeCount
     IN IF spawned
        THEN /\ dom' = Reload(dom)
             /\ inst' = [i \in Instances |-> FreshInstance]
             /\ timers' = {}
             /\ listeners' = 0
             /\ spawning' = [inFlight |-> 0, beforeCount |-> 0]
             /\ ret' = Ok
        ELSE /\ spawning' = IF spawning.inFlight = 1
                            THEN [inFlight |-> 0, beforeCount |-> 0]
                            ELSE [spawning EXCEPT !.inFlight = @ - 1]
             /\ ret' = Err("not spawned")
             /\ UNCHANGED pageVars
  /\ Hist("spawnFinish") /\ mountHid' = {}
  /\ UNCHANGED <<sessionVars, mountedUI, calls, resp, io>>

\* ---------------------------------------------------------------- getResponse
\* Times are ticks of 100 ms since getResponse was called (startTime = 0).
\* sleep(500) after a changed read
QuietTicks == 5
\* sleep(200) after an unchanged, empty read
PollTicks == 2
\* transcript changes by the host during one getResponse call
MaxChanges == 2
\* waitMs arguments tried: 1000 ms and 2000 ms
WaitChoices == {10, 20}
\* innerText values of the transcript ('' when the panel or its scroll area is missing)
Texts == {"", "a", "b"}

InitResponse ==
  /\ InitEngine /\ Len(dom.panels) = 0
  /\ \E w \in WaitChoices, t \in Texts :
       resp = [pc |-> "loop", now |-> 0, wake |-> 0, waitTicks |-> w,
               transcript |-> t, lastContent |-> "", changeTimes |-> <<>>,
               response |-> "", stable |-> FALSE, timeout |-> FALSE]
  /\ io = NoIO

\* the poll loop throwing when the time bound is exceeded instead of returning
GetResponseStepThrows(r) ==
  IF ~(r.now < r.waitTicks)
  THEN [r EXCEPT !.pc = "thrown"]
  ELSE LET content == r.transcript
       IN IF content /= r.lastContent
          THEN [r EXCEPT !.lastContent = content, !.wake = r.now + QuietTicks]
          ELSE IF content /= ""
               THEN [r EXCEPT !.pc = "done", !.response = content, !.stable = TRUE]
               ELSE [r EXCEPT !.wake = r.now + PollTicks]

\* the poll loop returning stable on any unchanged read, the empty one included
GetResponseStepStableEmpty(r) ==
  IF ~(r.now < r.waitTicks)
  THEN [r EXCEPT !.pc = "done", !.response = r.lastContent, !.timeout = TRUE]
  ELSE LET content == r.transcript
       IN IF content /= r.lastContent
          THEN [r EXCEPT !.lastContent = content, !.wake = r.now + QuietTicks]
          ELSE [r EXCEPT !.pc = "done", !.response = content, !.stable = TRUE]

\* one evaluation of the while condition and, inside the loop, of its body:
\* read the transcript; changed -> remember it and sleep(500); unchanged and
\* non-empty -> return stable; unchanged and empty -> sleep(200); condition
\* false -> return the last text read, marked timeout
GetResponseStep(r) ==
  IF ~(r.now < r.waitTicks)
  THEN [r EXCEPT !.pc = "done", !.response = r.lastContent, !.timeout = TRUE]
  ELSE LET content == r.transcript
       IN IF content /= r.lastContent
          THEN [r EXCEPT !.lastContent = content, !.wake = r.now + QuietTicks]
          ELSE IF content /= ""
               THEN [r EXCEPT !.pc = "done", !.response = content, !.stable = TRUE]
               ELSE [r EXCEPT !.wake = r.now + PollTicks]

\* the loop runs when its sleep is over
RespPoll ==
  /\ resp.pc = "loop" /\ resp.now = resp.wake
  /\ resp' = GetResponseStep(resp)
  /\ UNCHANGED <<sessionVars, mountedUI, calls, pageVars, spawning, lastOp, prevOp, ret,
                 mountHid, ops, io>>

\* 100 ms pass while the loop sleeps
RespTick ==
  /\ resp.pc = "loop" /\ resp.now < resp.wake
  /\ resp' = [resp EXCEPT !.now = @ + 1]
  /\ UNCHANGED <<sessionVars, mountedUI, calls, pageVars, spawning, lastOp, prevOp, ret,
                 mountHid, ops, io>>

\* the time of the transcript's last change since the call (-1: none yet)
LastChange(r) == IF r.changeTimes = <<>> THEN -1 ELSE r.changeTimes[Len(r.changeTimes)]

\* the host changes the transcript text while getResponse is running (at most
\* one change in a tick)
RespHostChange(t) ==
  /\ resp.pc = "loop" /\ t /= resp.transcript
  /\ Len(resp.changeTimes) < MaxChanges
  /\ LastChange(resp) < resp.now
  /\ resp' = [resp EXCEPT !.transcript = t, !.changeTimes = Append(@, resp.now)]
  /\ UNCHANGED <<sessionVars, mountedUI, calls, pageVars, spawning, lastOp, prevOp, ret,
                 mountHid, ops, io>>

NextResponse ==
  \/ RespPoll
  \/ RespTick
  \/ \E t \in Texts : RespHostChange(t)

SpecResponse == InitResponse /\ [][NextResponse]_vars
\* the event loop runs the poll when its sleep is over, and time passes
SpecResponseFair == SpecResponse /\ WF_vars(RespPoll) /\ WF_vars(RespTick)

\* ---------------------------------------------------------------- getResponse, streaming
\* A transcript that only grows, as while the assistant is typing: its text
\* after g chunks is a string no earlier text equals ('' before the first chunk).
StreamText(g) == IF g = 0 THEN "" ELSE ToString(g)

InitStream ==
  /\ InitEngine /\ Len(dom.panels) = 0
  /\ \E w \in WaitChoices :
       resp = [pc |-> "loop", now |-> 0, wake |-> 0, waitTicks |-> w,
               transcript |-> "", lastContent |-> "", changeTimes |-> <<>>,
               response |-> "", stable |-> FALSE, timeout |-> FALSE,
               growths |-> 0, grownAt |-> -1]
  /\ io = NoIO

\* the host appends a chunk to the transcript (at most one chunk in a tick)
RespGrow ==
  /\ resp.pc = "loop" /\ resp.grownAt < resp.now
  /\ resp' = [resp EXCEPT !.growths = @ + 1, !.grownAt = resp.now,
                          !.transcript = StreamText(resp.growths + 1)]
  /\ UNCHANGED <<sessionVars, mountedUI, calls, pageVars, spawning, lastOp, prevOp, ret,
                 mountHid, ops, io>>

NextStream ==
  \/ RespPoll
  \/ RespTick
  \/ RespGrow

SpecStream == InitStream /\ [][NextStream]_vars
\* the event loop runs the poll when its sleep is over, and time passes
SpecStreamFair == SpecStream /\ WF_vars(RespPoll) /\ WF_vars(RespTick)

\* ---------------------------------------------------------------- the panel calls
\* Text is a sequence of characters.  What a compose surface holds before a call,
\* and the message arguments tried:
Drafts == {<<>>, <<"d">>}
Messages == {<<>>, <<"h", "i">>}
\* the panel's 'button.rounded-full': absent, carrying 'cursor-not-allowed', or not
Buttons == {"none", "disabled", "enabled"}
\* a panel without a '[contenteditable="true"]' element
NoCompose == [input |-> FALSE, content |-> <<>>, btn |-> "none"]
Composes ==
  {[input |-> FALSE, content |-> <<>>, btn |-> b] : b \in Buttons}
    \cup {[input |-> TRUE, content |-> t, btn |-> b] : t \in Drafts, b \in Buttons}
\* index arguments tried: every index in range and one past the range
Indices == 0..MaxPanelNodes

\* panels[idx] of document.querySelectorAll('.chat-client-root'); 0 for undefined
PanelAt(d, idx) == IF idx \in 0..(Len(d.panels) - 1) THEN d.panels[idx + 1] ELSE 0
\* str.slice(0, n)
Slice(t, n) == SubSeq(t, 1, IF Len(t) < n THEN Len(t) ELSE n)
\* what a call on a null page does: TypeError from page.evaluate
Thrown == [thrown |-> "TypeError"]

\* getPanelState with the error test left out and optional chaining instead:
\* a missing panel reads as an invisible, empty one
GetPanelStateUnchecked(d, c, idx) ==
  LET node == PanelAt(d, idx)
  IN [index |-> idx,
      visible |-> IF node = 0 THEN FALSE ELSE Visible(d, PanelEl(node)),
      inputContent |-> IF node = 0 THEN <<>> ELSE c[node].content,
      buttonEnabled |-> IF node = 0 THEN FALSE ELSE c[node].btn = "enabled",
      totalPanels |-> Len(d.panels)]

\* getPanelState(index), the page.evaluate body: c is the compose state per container
GetPanelState(d, c, idx) ==
  LET node == PanelAt(d, idx)
  IN IF node = 0
     THEN [error |-> <<"Panel", idx, "not found">>, totalPanels |-> Len(d.panels)]
     ELSE [index |-> idx,
           visible |-> Visible(d, PanelEl(node)),
           inputContent |-> c[node].content,
           buttonEnabled |-> c[node].btn = "enabled",
           totalPanels |-> Len(d.panels)]

\* listPanels numbering its entries from 1
ListPanelsOneBased(d, c) ==
  [k \in 1..Len(d.panels) |->
     [index |-> k,
      id |-> "null",
      visible |-> Visible(d, PanelEl(d.panels[k])),
      inputContent |-> Slice(c[d.panels[k]].content, 50),
      buttonEnabled |-> c[d.panels[k]].btn = "enabled"]]

\* listPanels(), the page.evaluate body: one entry per container in document order
ListSlice == 50
ListPanels(d, c) ==
  [k \in 1..Len(d.panels) |->
     [index |-> k - 1,
      id |-> "null",
      visible |-> Visible(d, PanelEl(d.panels[k])),
      inputContent |-> Slice(c[d.panels[k]].content, ListSlice),
      buttonEnabled |-> c[d.panels[k]].btn = "enabled"]]

\* The host's editor, on the input events that reach a focused compose surface:
\* select-all and Backspace empty it, each char event appends its character;
\* afterwards the submit control is enabled iff the text is non-empty and valid.
HostTyped(cs, clear, message, valid) ==
  LET text == (IF clear THEN <<>> ELSE cs.content) \o message
  IN [cs EXCEPT !.content = text,
                !.btn = IF @ = "none" THEN "none"
                        ELSE IF text /= <<>> /\ valid THEN "enabled" ELSE "disabled"]
\* The host's submit handler on a click of the enabled submit control
HostSubmitted(cs) == [cs EXCEPT !.content = <<>>, !.btn = "disabled"]

\* the number of Input.dispatchKeyEvent calls of select-all and Backspace
ClearEvents == 6

\* send clicking the submit control whenever submit is requested, whatever
\* getPanelState reported
SendClicksAnyway(d, c, index, message, clear, submit, env) ==
  LET node == PanelAt(d, index)
      none == [compose |-> c, events |-> 0, clicked |-> FALSE, observed |-> FALSE]
  IN IF node = 0
     THEN none @@ [result |-> [sent |-> FALSE, error |-> "Panel not found"]]
     ELSE IF ~c[node].input
     THEN none @@ [result |-> [sent |-> FALSE, error |-> "Input not found"]]
     ELSE LET events == (IF clear THEN ClearEvents ELSE 0) + Len(message)
              typed == IF events > 0 /\ env.focused
                       THEN [c EXCEPT ![node] = HostTyped(@, clear, message, env.valid)]
                       ELSE c
              state == GetPanelState(d, typed, index)
          IN IF submit
             THEN [compose |-> IF state.buttonEnabled
                               THEN [typed EXCEPT ![node] = HostSubmitted(@)] ELSE typed,
                   events |-> events, clicked |-> TRUE, observed |-> state.buttonEnabled,
                   result |-> [sent |-> TRUE, message |-> message]]
             ELSE [compose |-> typed, events |-> events, clicked |-> FALSE,
                   observed |-> state.buttonEnabled,
                   result |-> [sent |-> FALSE, buttonEnabled |-> state.buttonEnabled,
                               inputContent |-> state.inputContent]]

\* send(index, message, {clear, submit}) on a connected session.  env.focused is
\* what the focus verification finds (document.activeElement is the compose
\* surface or not), env.valid whether the host accepts the text.  The input
\* events go to the element that has focus; the result's focused flag is not
\* looked at.  observed is buttonEnabled as getPanelState reported it after the
\* settle delay.
Send(d, c, index, message, clear, submit, env) ==
  LET node == PanelAt(d, index)
      none == [compose |-> c, events |-> 0, clicked |-> FALSE, observed |-> FALSE]
  IN IF node = 0
     THEN none @@ [result |-> [sent |-> FALSE, error |-> "Panel not found"]]
     ELSE IF ~c[node].input
     THEN none @@ [result |-> [sent |-> FALSE, error |-> "Input not found"]]
     ELSE LET events == (IF clear THEN ClearEvents ELSE 0) + Len(message)
              typed == IF events > 0 /\ env.focused
                       THEN [c EXCEPT ![node] = HostTyped(@, clear, message, env.valid)]
                       ELSE c
              state == GetPanelState(d, typed, index)
          IN IF submit /\ state.buttonEnabled
             THEN [compose |-> [typed EXCEPT ![node] = HostSubmitted(@)],
                   events |-> events, clicked |-> TRUE, observed |-> state.buttonEnabled,
                   result |-> [sent |-> TRUE, message |-> message]]
             ELSE [compose |-> typed, events |-> events, clicked |-> FALSE,
                   observed |-> state.buttonEnabled,
                   result |-> [sent |-> FALSE, buttonEnabled |-> state.buttonEnabled,
                               inputContent |-> state.inputContent]]

\* one outward step of send; text is the character of a char event
SendStep(step, text) == [step |-> step, text |-> text]
\* the six key events of select-all and Backspace
ClearKeys ==
  <<SendStep("key", "Meta down"), SendStep("key", "a down"), SendStep("key", "a up"),
    SendStep("key", "Meta up"), SendStep("key", "Backspace down"),
    SendStep("key", "Backspace up")>>

\* send typing the message before it clears the compose surface
SendLogTypesFirst(d, c, index, message, clear, submit, env) ==
  LET node == PanelAt(d, index)
      found == IF node = 0 THEN FALSE ELSE c[node].input
  IN IF ~found
     THEN <<SendStep("focus", "error")>>
     ELSE <<SendStep("focus", "")>>
          \o [j \in 1..Len(message) |-> SendStep("char", message[j])]
          \o (IF clear THEN ClearKeys ELSE <<>>)
          \o <<SendStep("settle", ""), SendStep("check", "")>>
          \o (IF Send(d, c, index, message, clear, submit, env).clicked
              THEN <<SendStep("click", "")>> ELSE <<>>)

\* send: the steps it awaits, in order: the focus evaluation; the clear keys; one
\* char event per character; the settle sleep; getPanelState; the click
SendLog(d, c, index, message, clear, submit, env) ==
  LET node == PanelAt(d, index)
      found == IF node = 0 THEN FALSE ELSE c[node].input
  IN IF ~found
     THEN <<SendStep("focus", "error")>>
     ELSE <<SendStep("focus", "")>>
          \o (IF clear THEN ClearKeys ELSE <<>>)
          \o [j \in 1..Len(message) |-> SendStep("char", message[j])]
          \o <<SendStep("settle", ""), SendStep("check", "")>>
          \o (IF Send(d, c, index, message, clear, submit, env).clicked
              THEN <<SendStep("click", "")>> ELSE <<>>)

\* a connected session on a document whose containers carry compose surfaces
InitPanels ==
  /\ Connected /\ InitPage
  /\ resp = NoResp
  /\ \E c \in [PanelNodes -> Composes] :
       /\ \A n \in PanelNodes \ Range(dom.panels) : c[n] = NoCompose
       /\ io = [op |-> "none", compose |-> c]

\* one send call
SendCall ==
  /\ io.op = "none"
  /\ \E index \in Indices, message \in Messages, clear \in BOOLEAN, submit \in BOOLEAN,
        focused \in BOOLEAN, valid \in BOOLEAN :
       LET env == [focused |-> focused, valid |-> valid]
           r == Send(dom, io.compose, index, message, clear, submit, env)
       IN io' = [op |-> "send", compose |-> r.compose, pre |-> io.compose,
                 args |-> [index |-> index, message |-> message, clear |-> clear,
                           submit |-> submit],
                 env |-> env, result |-> r.result, events |-> r.events,
                 clicked |-> r.clicked, observed |-> r.observed,
                 log |-> SendLog(dom, io.compose, index, message, clear, submit, env)]
  /\ UNCHANGED <<sessionVars, mountedUI, calls, pageVars, spawning, lastOp, prevOp, ret,
                 mountHid, ops, resp>>

NextSend == SendCall

SpecSend == InitPanels /\ [][NextSend]_vars

\* the compose surface of a container the host has just created
FreshCompose == [input |-> TRUE, content |-> <<>>, btn |-> "disabled"]

\* spawnCascade reporting the new panel as the last one
SpawnCascadeAppends(d, created, n) ==
  LET after == IF created THEN [d EXCEPT !.panels = <<n>> \o @] ELSE d
      beforeCount == Len(d.panels)
      afterCount == Len(after.panels)
  IN [d |-> after,
      result |-> [spawned |-> afterCount > beforeCount, beforeCount |-> beforeCount,
                  afterCount |-> afterCount, newIndex |-> afterCount - 1]]

\* spawnCascade(): count the containers, run "Cascade in new tab" from the
\* command palette, wait, count again.  created is whether the host made a
\* container in that time; the host puts a new container first in the document
\* ("New panels appear at index 0, pushing others down").
SpawnCascade(d, created, n) ==
  LET after == IF created THEN [d EXCEPT !.panels = <<n>> \o @] ELSE d
      beforeCount == Len(d.panels)
      afterCount == Len(after.panels)
  IN [d |-> after,
      result |-> [spawned |-> afterCount > beforeCount, beforeCount |-> beforeCount,
                  afterCount |-> afterCount, newIndex |-> 0]]

\* a controller call returns, or throws when the page handle is null; a returned
\* array is kept in the field list of the result
Returned(op, args, c, result) ==
  [op |-> op, args |-> args, compose |-> c,
   result |-> IF page = "null" THEN Thrown ELSE result, threw |-> page = "null"]

SpawnCascadeCall(created, n) ==
  /\ n \notin Range(dom.panels)
  /\ IF page = "null"
     THEN /\ io' = Returned("spawnCascade", <<>>, io.compose, Thrown)
          /\ UNCHANGED <<dom, inst, timers>>
     ELSE LET r == SpawnCascade(dom, created, n)
          IN /\ dom' = r.d
             /\ inst' = IF created THEN ObserveAdded(inst, n) ELSE inst
             /\ timers' = IF created THEN timers \cup ScheduledFor(inst, n) ELSE timers
             /\ io' = Returned("spawnCascade", <<>>,
                               IF created THEN [io.compose EXCEPT ![n] = FreshCompose]
                               ELSE io.compose,
                               r.result)
  /\ UNCHANGED <<sessionVars, mountedUI, calls, listeners, spawning, lastOp, prevOp, ret,
                 mountHid, ops, resp>>

ListPanelsCall ==
  /\ io' = Returned("listPanels", <<>>, io.compose, [list |-> ListPanels(dom, io.compose)])
  /\ UNCHANGED <<sessionVars, mountedUI, calls, pageVars, spawning, lastOp, prevOp, ret,
                 mountHid, ops, resp>>

GetPanelStateCall(index) ==
  /\ io' = Returned("getPanelState", <<index>>, io.compose,
                    GetPanelState(dom, io.compose, index))
  /\ UNCHANGED <<sessionVars, mountedUI, calls, pageVars, spawning, lastOp, prevOp, ret,
                 mountHid, ops, resp>>

NextPanels ==
  \/ Disconnect
  \/ \E created \in BOOLEAN, n \in PanelNodes : SpawnCascadeCall(created, n)
  \/ ListPanelsCall
  \/ \E index \in Indices : GetPanelStateCall(index)

SpecPanels == InitPanels /\ [][NextPanels]_vars

\* ---------------------------------------------------------------- send, step by step
\* no send under way; -1 stands for a container not resolved yet
IdleSend ==
  [op |-> "none", pc |-> "idle", index |-> 0, message |-> <<>>, submit |-> FALSE,
   focusedNode |-> -1, checkedNode |-> -1, clickedNode |-> -1]

\* a connected session; every container, present or yet to be inserted, has an
\* empty compose surface and a disabled submit control
InitSendSteps ==
  /\ Connected /\ InitPage
  /\ resp = NoResp
  /\ io = IdleSend @@ [compose |-> [n \in PanelNodes |-> FreshCompose]]

\* send: the first page.evaluate resolves panels[idx] and focuses its input
SendFocusStep(index, message, submit) ==
  /\ io.pc = "idle"
  /\ LET node == PanelAt(dom, index)
         found == IF node = 0 THEN FALSE ELSE io.compose[node].input
     IN io' = [io EXCEPT !.op = "send", !.index = index, !.message = message,
                         !.submit = submit,
                         !.focusedNode = IF found THEN node ELSE -1,
                         !.checkedNode = -1, !.clickedNode = -1,
                         !.pc = IF found THEN "typing" ELSE "done"]
  /\ UNCHANGED <<sessionVars, mountedUI, calls, pageVars, spawning, lastOp, prevOp, ret,
                 mountHid, ops, resp>>

\* send: the clear keys and the char events, with their sleeps; they reach the
\* element that has focus, if it is still in the document
SendTypeStep ==
  /\ io.pc = "typing"
  /\ io' = [io EXCEPT !.pc = "check",
                      !.compose = IF io.focusedNode \in Range(dom.panels)
                                  THEN [@ EXCEPT ![io.focusedNode] =
                                          HostTyped(@, TRUE, io.message, TRUE)]
                                  ELSE @]
  /\ UNCHANGED <<sessionVars, mountedUI, calls, pageVars, spawning, lastOp, prevOp, ret,
                 mountHid, ops, resp>>

\* send: state = await getPanelState(index), which resolves panels[idx] again
SendCheckStep ==
  /\ io.pc = "check"
  /\ LET node == PanelAt(dom, io.index)
         enabled == IF node = 0 THEN FALSE
                    ELSE GetPanelState(dom, io.compose, io.index).buttonEnabled
     IN io' = [io EXCEPT !.checkedNode = node,
                         !.pc = IF io.submit /\ enabled THEN "click" ELSE "done"]
  /\ UNCHANGED <<sessionVars, mountedUI, calls, pageVars, spawning, lastOp, prevOp, ret,
                 mountHid, ops, resp>>

\* send: the last page.evaluate resolves panels[idx] once more and clicks its
\* enabled submit control
SendClickStep ==
  /\ io.pc = "click"
  /\ LET node == PanelAt(dom, io.index)
     IN io' = [io EXCEPT !.clickedNode = node,
                         !.pc = "done",
                         !.compose = IF node = 0 THEN @
                                     ELSE IF @[node].btn = "enabled"
                                     THEN [@ EXCEPT ![node] = HostSubmitted(@)]
                                     ELSE @]
  /\ UNCHANGED <<sessionVars, mountedUI, calls, pageVars, spawning, lastOp, prevOp, ret,
                 mountHid, ops, resp>>

\* send returned; the next call may start
SendReturnStep ==
  /\ io.pc = "done"
  /\ io' = [io EXCEPT !.pc = "idle", !.op = "none"]
  /\ UNCHANGED <<sessionVars, mountedUI, calls, pageVars, spawning, lastOp, prevOp, ret,
                 mountHid, ops, resp>>

\* the host inserts a container at index 0 (not mounted: no observer)
StepHostInsert(n) ==
  /\ n \notin Range(dom.panels)
  /\ dom' = [dom EXCEPT !.panels = <<n>> \o @]
  /\ UNCHANGED <<sessionVars, mountedUI, calls, inst, timers, listeners, spawning, lastOp,
                 prevOp, ret, mountHid, ops, resp, io>>

\* the host takes a container out of the document
StepHostRemove(n) ==
  /\ n \in Range(dom.panels)
  /\ dom' = [dom EXCEPT !.panels = Remove(@, n)]
  /\ UNCHANGED <<sessionVars, mountedUI, calls, inst, timers, listeners, spawning, lastOp,
                 prevOp, ret, mountHid, ops, resp, io>>

NextSendSteps ==
  \/ \E index \in Indices, message \in Messages, submit \in BOOLEAN :
       SendFocusStep(index, message, submit)
  \/ SendTypeStep
  \/ SendCheckStep
  \/ SendClickStep
  \/ SendReturnStep
  \/ \E n \in PanelNodes : StepHostInsert(n)
  \/ \E n \in PanelNodes : StepHostRemove(n)

SpecSendSteps == InitSendSteps /\ [][NextSendSteps]_vars

\* ---------------------------------------------------------------- extraction and rendering
\* A message element of the host's transcript: whether it carries the class or
\* role 'user', its innerText, and its data-timestamp attribute (0: none).
MsgEl(user, text, ts) == [user |-> user, text |-> text, ts |-> ts]
\* text that reads as markup
Markup == "<img src=x onerror=alert(1)>"
IsMarkup(t) == t = Markup
\* the transcripts a container may show
HostTranscripts ==
  { <<>>,
    <<MsgEl(TRUE, "hi", 0)>>,
    <<MsgEl(TRUE, "hi", 0), MsgEl(FALSE, "hello", 0)>>,
    <<MsgEl(TRUE, "hi", 7), MsgEl(FALSE, "hello", 8)>>,
    <<MsgEl(FALSE, Markup, 7)>>,
    <<MsgEl(TRUE, Markup, 7), MsgEl(FALSE, "hello", 8), MsgEl(TRUE, "hi", 9)>> }
\* Date.now() readings during one run, counted from the first
MaxClock == 2

\* extract(): the messages of one container; now is Date.now()
ExtractMessages(els, now) ==
  [j \in DOMAIN els |->
     [role |-> IF els[j].user THEN "user" ELSE "assistant",
      content |-> els[j].text,
      html |-> <<"escaped", els[j].text>>,
      timestamp |-> IF els[j].ts /= 0 THEN <<"data-timestamp", els[j].ts>>
                    ELSE <<"Date.now", now>>]]

\* extract(): the conversation pushed for the container at position k
ExtractConversation(d, m, c, k, now) ==
  [index |-> k - 1,
   messages |-> ExtractMessages(m[d.panels[k]], now),
   fullText |-> [j \in DOMAIN m[d.panels[k]] |-> m[d.panels[k]][j].text],
   inputContent |-> c[d.panels[k]].content]

\* extract(): the conversations of the snapshot, in document order
ExtractConversations(d, m, c, now) ==
  [k \in DOMAIN d.panels |-> ExtractConversation(d, m, c, k, now)]

\* the two treatments createPanel gives a message block
RoleStyle(role) == IF role = "user" THEN "#00d4ff" ELSE "#888"

\* createPanel's conversation area filled with msgEl.innerHTML = msg.content
RenderMessagesInnerHTML(messages) ==
  IF Len(messages) > 0
  THEN [j \in DOMAIN messages |->
          [kind |-> "message", style |-> RoleStyle(messages[j].role),
           text |-> IF IsMarkup(messages[j].content) THEN "" ELSE messages[j].content,
           elements |-> IF IsMarkup(messages[j].content) THEN 1 ELSE 0]]
  ELSE <<[kind |-> "empty", style |-> "#666",
          text |-> "No messages yet. Start a conversation below.", elements |-> 0]>>

\* createPanel: the children of the conversation area; msgEl.textContent =
\* msg.content makes one text node and no element
RenderMessages(messages) ==
  IF Len(messages) > 0
  THEN [j \in DOMAIN messages |->
          [kind |-> "message", style |-> RoleStyle(messages[j].role),
           text |-> messages[j].content, elements |-> 0]]
  ELSE <<[kind |-> "empty", style |-> "#666",
          text |-> "No messages yet. Start a conversation below.", elements |-> 0]>>

\* createUI's '#panels-container' left empty when there are no conversations
PanelsContainerNoPlaceholder(conversations) ==
  [k \in DOMAIN conversations |->
     [kind |-> "panel", index |-> k - 1,
      input |-> conversations[k].inputContent,
      area |-> RenderMessages(conversations[k].messages)]]

\* createUI: the children of '#panels-container': createPanel(conv, index) for
\* every conversation (dataset.index = index, input.textContent =
\* conv.inputContent), or one placeholder when there is none
PanelsContainer(conversations) ==
  IF Len(conversations) > 0
  THEN [k \in DOMAIN conversations |->
          [kind |-> "panel", index |-> k - 1,
           input |-> conversations[k].inputContent,
           area |-> RenderMessages(conversations[k].messages)]]
  ELSE <<[kind |-> "placeholder", index |-> -1, input |-> <<>>, area |-> <<>>]>>

\* createToolbar: badge.textContent = extraction.conversations.length
BadgeText(conversations) == Len(conversations)

\* the sub-panels among the children of the built panel container
SubPanels(children) == SelectSeq(children, LAMBDA b : b.kind = "panel")

\* no replacement tree built
NoTree == [badge |-> -1, children |-> <<>>]

NoSnapshot == [taken |-> FALSE, conversations |-> <<>>]

\* a connected session on a document whose containers show transcripts; the
\* document does not change in this specification
InitSnapshot ==
  /\ Connected /\ InitPage
  /\ resp = NoResp
  /\ \E m \in [PanelNodes -> HostTranscripts], c \in [PanelNodes -> Composes] :
       /\ \A n \in PanelNodes \ Range(dom.panels) : m[n] = <<>> /\ c[n] = NoCompose
       /\ \A n \in Range(dom.panels) : c[n].input /\ c[n].btn = "disabled"
       /\ io = [op |-> "none", messages |-> m, compose |-> c, clock |-> 0,
                snap |-> NoSnapshot, prev |-> NoSnapshot, rendered |-> <<>>,
                tree |-> NoTree]

\* extract() evaluated in the page
ExtractCall ==
  /\ io' = [io EXCEPT !.op = "extract",
                      !.prev = io.snap,
                      !.snap = [taken |-> TRUE,
                                conversations |->
                                  ExtractConversations(dom, io.messages, io.compose, io.clock)]]
  /\ UNCHANGED <<sessionVars, mountedUI, calls, pageVars, spawning, lastOp, prevOp, ret,
                 mountHid, ops, resp>>

\* createUI's createPanel(conv, index, extraction) for every conversation of
\* the last snapshot
RenderCall ==
  /\ io.snap.taken
  /\ io' = [io EXCEPT !.op = "render",
                      !.rendered = [k \in DOMAIN io.snap.conversations |->
                                      RenderMessages(io.snap.conversations[k].messages)],
                      !.tree = [badge |-> BadgeText(io.snap.conversations),
                                children |-> PanelsContainer(io.snap.conversations)]]
  /\ UNCHANGED <<sessionVars, mountedUI, calls, pageVars, spawning, lastOp, prevOp, ret,
                 mountHid, ops, resp>>

\* a millisecond passes
ClockTick ==
  /\ io.clock < MaxClock
  /\ io' = [io EXCEPT !.clock = @ + 1]
  /\ UNCHANGED <<sessionVars, mountedUI, calls, pageVars, spawning, lastOp, prevOp, ret,
                 mountHid, ops, resp>>

NextSnapshot ==
  \/ ExtractCall
  \/ RenderCall
  \/ ClockTick

SpecSnapshot == InitSnapshot /\ [][NextSnapshot]_vars

\* ---------------------------------------------------------------- sub-panels and their originals
\* the transcripts and drafts the host shows in this specification
LiveTranscripts == {<<>>, <<MsgEl(TRUE, "hi", 0)>>, <<MsgEl(TRUE, "hi", 0), MsgEl(FALSE, "hello", 0)>>}
LiveComposes == {[input |-> TRUE, content |-> t, btn |-> "disabled"] : t \in Drafts}

\* extractPanelContent(nativePanel): the non-empty message texts with their
\* roles and the compose text (the model's texts are trimmed and shorter than
\* the 500 character cut)
ExtractPanelContent(els, compose) ==
  [messages |-> [j \in DOMAIN SelectSeq(els, LAMBDA e : e.text /= "") |->
                   [role |-> IF SelectSeq(els, LAMBDA e : e.text /= "")[j].user
                             THEN "user" ELSE "assistant",
                    content |-> SelectSeq(els, LAMBDA e : e.text /= "")[j].text]],
   inputContent |-> IF compose.input THEN compose.content ELSE <<>>]

\* addPanelToUI re-rendering every sub-panel's compose text from the new conversation
AppendSubPanelRefreshes(sub, conversation, newIndex) ==
  [k \in 1..(Len(sub) + 1) |->
     [kind |-> "panel", index |-> IF k <= Len(sub) THEN sub[k].index ELSE newIndex,
      input |-> conversation.inputContent,
      area |-> IF k <= Len(sub) THEN sub[k].area ELSE RenderMessages(conversation.messages)]]

\* addPanelToUI: container.appendChild(createPanel(conversation, newIndex, {}))
AppendSubPanel(sub, conversation, newIndex) ==
  Append(sub, [kind |-> "panel", index |-> newIndex,
               input |-> conversation.inputContent,
               area |-> RenderMessages(conversation.messages)])

\* a connected session; every container of the host shows one message and a draft
InitFrozen ==
  /\ Connected /\ InitPage
  /\ resp = NoResp
  /\ io = [op |-> "none",
           messages |-> [n \in PanelNodes |-> <<MsgEl(TRUE, "hi", 0)>>],
           compose |-> [n \in PanelNodes |-> [input |-> TRUE, content |-> <<"d">>,
                                              btn |-> "disabled"]],
           sub |-> <<>>, changes |-> 0, emitted |-> <<>>, clicked |-> 0, before |-> <<>>]

\* mountCustomUI() that succeeds: the sub-panels are built from the extraction
FrozenMount ==
  /\ mountedUI = NullUI /\ ~MountNotConnected
  /\ calls < MaxMounts
  /\ calls' = calls + 1
  /\ LET m == MountPage(dom, inst, calls + 1)
     IN /\ dom' = m.dom
        /\ inst' = m.inst
        /\ mountedUI' = m.result
  /\ listeners' = listeners + 1
  /\ io' = [io EXCEPT !.op = "mountCustomUI",
                      !.sub = SubPanels(PanelsContainer(
                                ExtractConversations(dom, io.messages, io.compose, 0)))]
  /\ UNCHANGED <<sessionVars, timers, spawning, lastOp, prevOp, ret, mountHid, ops, resp>>

\* the host changes the transcript of a container
HostEditTranscript(n, t) ==
  /\ io.changes < MaxChanges
  /\ io.messages[n] /= t
  /\ io' = [io EXCEPT !.op = "hostEdit", !.messages[n] = t, !.changes = @ + 1]
  /\ UNCHANGED <<sessionVars, mountedUI, calls, pageVars, spawning, lastOp, prevOp, ret,
                 mountHid, ops, resp>>

\* the host (or the user typing in it) changes the draft of a container
HostEditCompose(n, c) ==
  /\ io.changes < MaxChanges
  /\ io.compose[n] /= c
  /\ io' = [io EXCEPT !.op = "hostEdit", !.compose[n] = c, !.changes = @ + 1]
  /\ UNCHANGED <<sessionVars, mountedUI, calls, pageVars, spawning, lastOp, prevOp, ret,
                 mountHid, ops, resp>>

\* the host inserts a container at index 0; the observer schedules its callback
FrozenHostInsert(n) ==
  /\ n \notin Range(dom.panels)
  /\ dom' = [dom EXCEPT !.panels = <<n>> \o @]
  /\ inst' = ObserveAdded(inst, n)
  /\ timers' = timers \cup ScheduledFor(inst, n)
  /\ io' = [io EXCEPT !.op = "hostInsert"]
  /\ UNCHANGED <<sessionVars, mountedUI, calls, listeners, spawning, lastOp, prevOp, ret,
                 mountHid, ops, resp>>

\* the deferred callback: addPanelToUI(node) with its extractPanelContent, then
\* hideElement(node)
FrozenTimerFire(i, n) ==
  /\ <<i, n>> \in timers
  /\ LET a == AddPanelToUI(dom, inst, i, n)
     IN /\ dom' = HideElement(a.d, PanelEl(n)).d
        /\ inst' = a.is
        /\ io' = [io EXCEPT !.op = "addPanelToUI",
                            !.sub = IF a.added
                                    THEN AppendSubPanel(@, ExtractPanelContent(io.messages[n],
                                                                               io.compose[n]),
                                                        inst[i].panelCount)
                                    ELSE @]
  /\ timers' = timers \ {<<i, n>>}
  /\ UNCHANGED <<sessionVars, mountedUI, calls, listeners, spawning, lastOp, prevOp, ret,
                 mountHid, ops, resp>>

NextFrozen ==
  \/ FrozenMount
  \/ \E n \in PanelNodes, t \in LiveTranscripts : HostEditTranscript(n, t)
  \/ \E n \in PanelNodes, c \in LiveComposes : HostEditCompose(n, c)
  \/ \E n \in PanelNodes : FrozenHostInsert(n)
  \/ \E i \in Instances, n \in PanelNodes : FrozenTimerFire(i, n)

SpecFrozen == InitFrozen /\ [][NextFrozen]_vars

\* ---------------------------------------------------------------- the sub-panel's send control
\* the texts a user leaves in a sub-panel's compose surface
SubPanelTexts ==
  {<<>>, <<" ">>, <<"\n", " ">>, <<"d">>, <<" ", "d", "\n">>, <<"d", " ", "e">>}
\* white space as String.prototype.trim sees it
IsSpace(ch) == ch \in {" ", "\n", "\t"}

\* String.prototype.trim
RECURSIVE Trim(_)
Trim(t) ==
  IF t = <<>> THEN t
  ELSE IF IsSpace(Head(t)) THEN Trim(Tail(t))
  ELSE IF IsSpace(t[Len(t)]) THEN Trim(SubSeq(t, 1, Len(t) - 1))
  ELSE t

\* the send button's handler sending input.innerText as it is
SendButtonClickUntrimmed(panel) ==
  IF panel.input /= <<>>
  THEN [events |-> <<[type |-> "cascade-send", panelIndex |-> panel.index,
                      message |-> panel.input]>>,
        input |-> <<>>]
  ELSE [events |-> <<>>, input |-> panel.input]

\* createPanel's send button handler: message = input.innerText.trim(); when it
\* is not empty dispatch one 'cascade-send' and set input.innerText = ''
SendButtonClick(panel) ==
  IF Trim(panel.input) /= <<>>
  THEN [events |-> <<[type |-> "cascade-send", panelIndex |-> panel.index,
                      message |-> Trim(panel.input)]>>,
        input |-> <<>>]
  ELSE [events |-> <<>>, input |-> panel.input]

\* the user edits the compose surface of sub-panel k
SubPanelType(k, t) ==
  /\ RootPresent /\ k \in DOMAIN io.sub
  /\ io.sub[k].input /= t
  /\ io' = [io EXCEPT !.op = "type", !.sub[k].input = t]
  /\ UNCHANGED <<sessionVars, mountedUI, calls, pageVars, spawning, lastOp, prevOp, ret,
                 mountHid, ops, resp>>

\* a click on the send button of sub-panel k
SubPanelSendClick(k) ==
  /\ RootPresent /\ k \in DOMAIN io.sub
  /\ LET r == SendButtonClick(io.sub[k])
     IN io' = [io EXCEPT !.op = "sendClick", !.clicked = k, !.before = io.sub[k].input,
                         !.emitted = r.events, !.sub[k].input = r.input]
  /\ UNCHANGED <<sessionVars, mountedUI, calls, pageVars, spawning, lastOp, prevOp, ret,
                 mountHid, ops, resp>>

NextSubSend ==
  \/ FrozenMount
  \/ \E k \in 1..MaxPanelNodes, t \in SubPanelTexts : SubPanelType(k, t)
  \/ \E k \in 1..MaxPanelNodes : SubPanelSendClick(k)

SpecSubSend == InitFrozen /\ [][NextSubSend]_vars

\* ---------------------------------------------------------------- mountCustomUI, step by step
\* the steps of the page.evaluate body, with destroyOriginalUI moved to the front
MountStepOrderHidesFirst == <<"destroyOriginalUI", "extract", "createUI", "mount", "wireHandlers">>
\* the steps of the page.evaluate body of mountCustomUI, in the order it runs them
MountStepOrder == <<"extract", "createUI", "mount", "wireHandlers", "destroyOriginalUI">>

\* no mountCustomUI under way
IdleMount ==
  [op |-> "none", pc |-> 0, call |-> 0, done |-> {}, failed |-> FALSE,
   extraction |-> [panels |-> <<>>, conversations |-> <<>>], ui |-> NoRoot, hidden |-> 0]

\* the in-page step that runs next is s
AtStep(s) ==
  /\ io.op = "mountCustomUI"
  /\ io.pc \in DOMAIN MountStepOrder
  /\ IF io.pc \in DOMAIN MountStepOrder THEN MountStepOrder[io.pc] = s ELSE FALSE
\* s ran to its end
StepDone(s) == [io EXCEPT !.pc = @ + 1, !.done = @ \cup {s}]

\* a connected session on a host document with up to MaxPanelNodes containers,
\* with or without a Cascade tab and an auxiliary bar
InitMountSteps ==
  /\ Connected
  /\ mountedUI = NullUI
  /\ calls = 0
  /\ \E k \in 0..MaxPanelNodes, tabs \in SUBSET TabNodes, aux \in BOOLEAN :
       dom = [panels |-> [j \in 1..k |-> j], style |-> [el \in Elems |-> ""],
              tabs |-> tabs, aux |-> aux, sidebar |-> TRUE, root |-> NoRoot,
              styleTag |-> FALSE]
  /\ inst = [i \in Instances |-> FreshInstance]
  /\ timers = {}
  /\ listeners = 0
  /\ spawning = [inFlight |-> 0, beforeCount |-> 0]
  /\ lastOp = "init" /\ prevOp = "other" /\ ret = Ok
  /\ mountHid = {}
  /\ ops = 0
  /\ resp = NoResp
  /\ io = IdleMount

\* mountCustomUI() up to the module load inside page.evaluate
MountBegin ==
  /\ io.op = "none"
  /\ ~MountNotConnected
  /\ calls < MaxMounts
  /\ calls' = calls + 1
  /\ io' = [IdleMount EXCEPT !.op = "mountCustomUI", !.pc = 1, !.call = calls + 1]
  /\ UNCHANGED <<sessionVars, mountedUI, pageVars, spawning, lastOp, prevOp, ret,
                 mountHid, ops, resp>>

\* Step 1: extraction = extractor.extract()
StepExtract ==
  /\ AtStep("extract")
  /\ io' = [StepDone("extract") EXCEPT !.extraction = Extract(dom)]
  /\ UNCHANGED <<sessionVars, mountedUI, calls, pageVars, spawning, lastOp, prevOp, ret,
                 mountHid, ops, resp>>

\* Step 2: ui = customUI.createUI(extraction)
StepCreateUI ==
  /\ AtStep("createUI")
  /\ LET ui == CreateUI(dom, io.call, io.extraction)
     IN /\ dom' = ui.d
        /\ io' = [StepDone("createUI") EXCEPT !.ui = ui.root]
  /\ UNCHANGED <<sessionVars, mountedUI, calls, inst, timers, listeners, spawning, lastOp,
                 prevOp, ret, mountHid, ops, resp>>

\* Step 3: customUI.mount(ui), with setCustomUIRef
StepMount ==
  /\ AtStep("mount")
  /\ dom' = Mount(dom, [root |-> io.ui])
  /\ inst' = [StopObserver(inst, io.call) EXCEPT ![io.call].panelCount = Len(io.ui.panels)]
  /\ io' = StepDone("mount")
  /\ UNCHANGED <<sessionVars, mountedUI, calls, timers, listeners, spawning, lastOp,
                 prevOp, ret, mountHid, ops, resp>>

\* Step 4: extractor.wireHandlers(extraction, ui): listeners on the sub-panels'
\* own controls
StepWireHandlers ==
  /\ AtStep("wireHandlers")
  /\ io' = StepDone("wireHandlers")
  /\ UNCHANGED <<sessionVars, mountedUI, calls, pageVars, spawning, lastOp, prevOp, ret,
                 mountHid, ops, resp>>

\* Step 5: destroyed = customUI.destroyOriginalUI(), which also starts the
\* module instance's observer
StepDestroyOriginalUI ==
  /\ AtStep("destroyOriginalUI")
  /\ LET destroyed == DestroyOriginalUI(dom)
     IN /\ dom' = destroyed.d
        /\ io' = [StepDone("destroyOriginalUI") EXCEPT !.hidden = destroyed.hidden]
  /\ inst' = [inst EXCEPT ![io.call].observing = TRUE, ![io.call].processed = {}]
  /\ UNCHANGED <<sessionVars, mountedUI, calls, timers, listeners, spawning, lastOp,
                 prevOp, ret, mountHid, ops, resp>>

\* a step throws: the catch block makes the evaluation return { success: false }
StepThrow ==
  /\ io.op = "mountCustomUI"
  /\ io.pc \in DOMAIN MountStepOrder
  /\ io' = [io EXCEPT !.pc = Len(MountStepOrder) + 1, !.failed = TRUE]
  /\ UNCHANGED <<sessionVars, mountedUI, calls, pageVars, spawning, lastOp, prevOp, ret,
                 mountHid, ops, resp>>

\* the evaluation returned: throw on !result.success, else mountedUI = result
StepReturn ==
  /\ io.op = "mountCustomUI"
  /\ io.pc = Len(MountStepOrder) + 1
  /\ lastOp' = "mountCustomUI"
  /\ IF io.failed
     THEN /\ ret' = Err(LoadError)
          /\ io' = [io EXCEPT !.op = "none", !.pc = 0]
          /\ UNCHANGED mountedUI
     ELSE /\ mountedUI' = [call |-> io.call, success |-> TRUE,
                           panelCount |-> Len(io.extraction.panels),
                           destroyed |-> io.hidden,
                           mounted |-> dom.root.owner /= 0]
          /\ io' = [io EXCEPT !.pc = @ + 1]
          /\ UNCHANGED ret
  /\ UNCHANGED <<sessionVars, calls, pageVars, spawning, prevOp, mountHid, ops, resp>>

\* await setupEventBridges(); return result.  exposeFunction may reject
StepBridge(f) ==
  /\ io.op = "mountCustomUI"
  /\ io.pc = Len(MountStepOrder) + 2
  /\ IF f = "bridge"
     THEN listeners' = listeners /\ ret' = Err(BridgeError)
     ELSE listeners' = listeners + 1 /\ ret' = Ok
  /\ io' = [io EXCEPT !.op = "none", !.pc = 0]
  /\ UNCHANGED <<sessionVars, mountedUI, calls, dom, inst, timers, spawning, lastOp,
                 prevOp, mountHid, ops, resp>>

NextMountSteps ==
  \/ MountBegin
  \/ StepExtract
  \/ StepCreateUI
  \/ StepMount
  \/ StepWireHandlers
  \/ StepDestroyOriginalUI
  \/ StepThrow
  \/ StepReturn
  \/ \E f \in {"none", "bridge"} : StepBridge(f)

SpecMountSteps == InitMountSteps /\ [][NextMountSteps]_vars

\* ---------------------------------------------------------------- specification
Next ==
  \/ \E o \in {"ok", "unreachable"} : Connect(o)
  \/ Disconnect
  \/ \E f \in FailPoints : MountCustomUI(f)
  \/ RestoreUI
  \/ CloseButton
  \/ \E i \in Instances, n \in PanelNodes : TimerFire(i, n)
  \/ \E n \in PanelNodes : HostInsertPanel(n)
  \/ \E n \in PanelNodes : HostRemovePanel(n)
  \/ \E t \in TabNodes : HostInsertTab(t)
  \/ NewButton
  \/ SpawnFinish

Spec == Init /\ [][Next]_vars


\* ---------------------------------------------------------------- the session alone
\* connect calls with every outcome, and disconnect calls
NextSession ==
  \/ \E o \in ConnectOutcomes : Connect(o)
  \/ Disconnect

SpecSession == Init /\ [][NextSession]_vars

\* ---------------------------------------------------------------- properties of Spec
\* the last operation was a mountCustomUI whose in-page steps all ran
MountRan == lastOp = "mountCustomUI" /\ ret.error \in {"", BridgeError}
\* the sub-panels the watcher built from container n
WatcherPanels(n) ==
  {k \in DOMAIN dom.root.panels :
     dom.root.panels[k].originalPanel = 0 /\ dom.root.panels[k].src = n}
\* a step of the engine: mount, unmount, close button, watcher callback
EngineStep ==
  \/ \E f \in FailPoints : MountCustomUI(f)
  \/ RestoreUI
  \/ CloseButton
  \/ \E i \in Instances, n \in PanelNodes : TimerFire(i, n)

\* C1: after two mountCustomUI calls in a row the document holds exactly one
\* replacement root and exactly one watcher is subscribed to document mutations.
C1_MountIdempotent ==
  (MountRan /\ prevOp = "mountCustomUI") =>
     (RootPresent /\ Cardinality(Observers) = 1)

\* C2: after mountCustomUI followed by restoreUI every element that the mount hid
\* is visible again and no replacement root remains.
C2_UnmountReversesMount ==
  (lastOp = "restoreUI" /\ ret.ok /\ prevOp = "mountCustomUI") =>
     (~RootPresent /\ \A el \in mountHid : Visible(dom, el))

\* C3: while mounted, a container inserted by the host gets exactly one sub-panel
\* from the watcher: no mutation sequence makes the watcher add a second one.
C3_OneSubPanelPerContainer ==
  (RootPresent /\ mountedUI /= NullUI) =>
     \A n \in PanelNodes : Cardinality(WatcherPanels(n)) <= 1

\* C4: after restoreUI has restored the UI no watcher is subscribed any more.
C4_UnmountDisconnectsWatcher ==
  (lastOp = "restoreUI" /\ ret.ok) => Observers = {}

\* C5: a mountCustomUI that failed while loading, building, inserting, hiding or
\* wiring the bridge leaves no Mount Record made by that call.
C5_FailedMountLeavesNoRecord ==
  (lastOp = "mountCustomUI" /\ ret.error \in {LoadError, BridgeError}) =>
     (GetMountStatus = NullUI \/ GetMountStatus.call /= calls)

\* C6: after restoreUI() or disconnect() completes, getMountStatus() returns null.
C6_RecordDestroyedByUnmountAndDisconnect ==
  lastOp \in {"restoreUI", "disconnect"} => GetMountStatus = NullUI

\* C7: getMountStatus() is non-null exactly when a replacement root is in the document.
C7_RecordTellsTakeover ==
  (GetMountStatus /= NullUI) <=> RootPresent

\* C8: restoreUI called without a Mount Record returns restored:false with the
\* "not mounted" error and changes neither the document, the session nor the record.
C8_RestoreWithoutRecordIsNoop ==
  [][(RestoreUI /\ mountedUI = NullUI) =>
       /\ ~ret'.ok /\ ret'.error = "UI not mounted"
       /\ UNCHANGED <<dom, inst, timers, listeners, sessionVars, mountedUI>>]_vars
\* reached: a second restoreUI on a connected session whose first restoreUI
\* already cleared the record (the first mount's watcher is still there)
C8_Witness ==
  /\ lastOp = "restoreUI" /\ ret.error = "UI not mounted"
  /\ page /= "null" /\ mountedUI = NullUI /\ Observers /= {}

\* C9: no mount, watcher callback, unmount or close-button step takes a
\* conversation container out of the document; they change display styles only.
C9_EngineNeverDeletesPanel ==
  [][EngineStep => dom'.panels = dom.panels]_vars
\* reached: a mount has hidden a container that is still in the document
C9_Witness ==
  /\ MountRan
  /\ \E n \in Range(dom.panels) : PanelEl(n) \in mountHid /\ ~Visible(dom, PanelEl(n))


\* the host's part of the document: everything but the replacement tree and
\* the style element that belongs to it
HostDocument(d) ==
  [panels |-> d.panels, style |-> d.style, tabs |-> d.tabs, aux |-> d.aux,
   sidebar |-> d.sidebar]
\* a click on a control of the replacement tree's toolbar
UIControlStep == NewButton \/ CloseButton

\* C21: a control of the replacement tree acts outside the tree only by emitting
\* a signal for the bridge: its handler changes neither the host's part of the
\* document nor the watcher.
C21_BridgeIsOnlyOutwardPath ==
  [][UIControlStep => (HostDocument(dom') = HostDocument(dom) /\ inst' = inst)]_vars

\* C22: disconnect() never fails and leaves all session handles cleared; called
\* when not connected it changes nothing, so a second call in a row leaves the
\* state of the first.
C22_DisconnectIdempotent ==
  [][Disconnect =>
       /\ ret'.ok
       /\ browser' = "null" /\ page' = "null" /\ cdpClient' = "null"
       /\ browser = "null" =>
            UNCHANGED <<sessionVars, mountedUI, calls, dom, inst, timers, listeners,
                        spawning, resp, io>>]_vars
\* reached: disconnect() as the very first call, on a session never connected
C22_Witness ==
  lastOp = "disconnect" /\ ops = 1 /\ ret.ok /\ browser = "null"

\* C23: from a mounted state, mountCustomUI ends in the state that restoreUI
\* followed by mountCustomUI ends in: the tree rebuilt from a fresh extraction,
\* the original elements hidden, the Mount Record, one watcher, one bridge wiring.
C23_RemountEqualsUnmountMount ==
  [][(MountCustomUI("none") /\ page /= "null" /\ mountedUI /= NullUI /\ RootPresent) =>
       LET viaUnmount == MountPage(RestoreUIPage(dom), inst, calls + 1)
       IN /\ dom' = viaUnmount.dom
          /\ inst' = viaUnmount.inst
          /\ MountPage(dom, inst, calls + 1).result = viaUnmount.result
          /\ Cardinality({j \in Instances : inst'[j].observing}) = 1
          /\ listeners' = 1]_vars

\* C24: at most one spawn operation started by the bridge is in flight.
C24_OneOperationInFlight ==
  spawning.inFlight <= 1

\* C25: mountCustomUI on a session that is not connected fails with "Not
\* connected" and changes neither the Mount Record nor the document.
C25_MountRequiresConnection ==
  [][\A f \in FailPoints : (MountCustomUI(f) /\ page = "null") =>
       /\ ~ret'.ok /\ ret'.error = "Not connected"
       /\ UNCHANGED <<mountedUI, dom, inst, timers, listeners>>]_vars
\* reached: a mount refused after disconnect(), the earlier Mount Record intact
C25_Witness ==
  /\ lastOp = "mountCustomUI" /\ ret.error = "Not connected"
  /\ page = "null" /\ mountedUI /= NullUI /\ RootPresent

\* C26: while one replacement root stays in the document its number of
\* sub-panels never decreases, whatever the host inserts or removes.
C26_WatcherNeverRetracts ==
  [][(dom.root.owner /= 0 /\ dom'.root.owner = dom.root.owner) =>
       Len(dom'.root.panels) >= Len(dom.root.panels)]_vars
\* reached: the host took a container out while its sub-panel, built by the
\* watcher, stays in the replacement root
C26_Witness ==
  /\ RootPresent
  /\ \E k \in DOMAIN dom.root.panels :
       /\ dom.root.panels[k].originalPanel = 0
       /\ dom.root.panels[k].src \notin Range(dom.panels)

\* C28: in every mounted state the index a sub-panel puts into its cascade-send
\* signal is the current document index of the container it was built from.
C28_SubPanelIndexIsDocumentIndex ==
  (RootPresent /\ mountedUI /= NullUI) =>
     \A k \in DOMAIN dom.root.panels :
        dom.root.panels[k].src \in Range(dom.panels) =>
           PanelAt(dom, dom.root.panels[k].index) = dom.root.panels[k].src

\* C32: on one cascade-spawn-panel signal the spawn operation is invoked once,
\* the page is reloaded exactly when its result has spawned: true, and a failed
\* spawn leaves the replacement tree as it was.
C32_SpawnBridgeReloadsOnSuccess ==
  [][/\ NewButton => spawning'.inFlight = 1
     /\ SpawnFinish =>
          IF page /= "null" /\ Len(dom.panels) > spawning.beforeCount
          THEN dom' = Reload(dom) /\ listeners' = 0
          ELSE dom'.root = dom.root /\ listeners' = listeners]_vars

\* C35: in every mounted state the panel-count badge shows the number of
\* sub-panels in the replacement tree's panel container.
C35_BadgeCountsSubPanels ==
  (RootPresent /\ mountedUI /= NullUI) => dom.root.badge = Len(dom.root.panels)

\* C36: once the watcher is stopped and the replacement root is gone, no step
\* other than a new mount hides a conversation container, also not for a
\* container detected shortly before the teardown.
C36_NoHidingAfterTeardown ==
  [][(~RootPresent /\ Observers = {} /\ dom'.root.owner = 0) =>
       \A n \in Range(dom.panels) :
         Visible(dom, PanelEl(n)) => Visible(dom', PanelEl(n))]_vars

\* C38: in every reachable state the browser, page and input-channel handles
\* are either all absent or all present (and then of one connect; the handles
\* of the model carry no identity, so this is the part of the claim it states).
C38_SessionHandlesConsistent ==
  \/ browser = "null" /\ page = "null" /\ cdpClient = "null"
  \/ browser /= "null" /\ page /= "null" /\ cdpClient /= "null"

\* ---------------------------------------------------------------- properties of SpecSendSteps
\* C37: within one send call the container whose submit control is checked and
\* the container whose submit control is clicked are the container that was
\* focused for typing.
C37_OneSendOnePanel ==
  io.op = "send" =>
    /\ io.checkedNode /= -1 => io.checkedNode = io.focusedNode
    /\ io.clickedNode /= -1 => io.clickedNode = io.focusedNode

\* ---------------------------------------------------------------- properties of SpecFrozen
\* C33: while the mount stands, no step (an edit the host makes to an original
\* panel's transcript or draft, or the watcher adding a sub-panel) changes the
\* messages or the compose text of an existing sub-panel.
C33_SubPanelIsFrozenSnapshot ==
  [][(mountedUI /= NullUI /\ mountedUI' = mountedUI) =>
       \A k \in DOMAIN io.sub :
         /\ k \in DOMAIN io'.sub
         /\ io'.sub[k] = io.sub[k]]_vars
\* reached: a sub-panel whose original has since been edited, next to a
\* sub-panel the watcher added
C33_Witness ==
  /\ mountedUI /= NullUI /\ RootPresent /\ Len(io.sub) = 2
  /\ dom.root.panels[2].originalPanel = 0
  /\ io.sub[1].input /= io.compose[dom.root.panels[1].src].content
  /\ io.sub[2].input /= io.sub[1].input

\* ---------------------------------------------------------------- properties of SpecSubSend
\* m is t without its leading and trailing white space
IsTrimOf(m, t) ==
  \E i, j \in 1..Len(t) :
    /\ i <= j /\ m = SubSeq(t, i, j)
    /\ ~IsSpace(t[i]) /\ ~IsSpace(t[j])
    /\ \A p \in 1..Len(t) : (p < i \/ p > j) => IsSpace(t[p])

\* C34: a click on a sub-panel's send control emits exactly one cascade-send
\* with the sub-panel's index and the trimmed text and empties the compose
\* surface when the text has a character that is not white space; otherwise it
\* emits nothing and leaves the compose surface as it was.
C34_OneSignalPerClick ==
  io.op = "sendClick" =>
    /\ Len(io.emitted) <= 1
    /\ IF \E p \in DOMAIN io.before : ~IsSpace(io.before[p])
       THEN /\ Len(io.emitted) = 1
            /\ io.emitted[1].type = "cascade-send"
            /\ io.emitted[1].panelIndex = io.sub[io.clicked].index
            /\ IsTrimOf(io.emitted[1].message, io.before)
            /\ io.sub[io.clicked].input = <<>>
       ELSE /\ io.emitted = <<>>
            /\ io.sub[io.clicked].input = io.before
\* reached: the second sub-panel sent a text that had white space around it
C34_Witness ==
  /\ io.op = "sendClick" /\ io.clicked = 2
  /\ io.before = <<" ", "d", "\n">>
  /\ Len(io.emitted) = 1 /\ io.emitted[1].message = <<"d">>

\* ---------------------------------------------------------------- properties of SpecMountSteps
\* C29: within one mountCustomUI the document is first changed after the
\* extraction finished, an original element is hidden only while the call's own
\* replacement root is in the document, and the Mount Record is set only after
\* every in-page step ran to its end.
C29_MountStepOrder ==
  [][/\ dom' /= dom => "extract" \in io.done
     /\ (\E el \in Elems : Visible(dom, el) /\ ~Visible(dom', el)) =>
          (dom.root.owner /= 0 /\ dom.root.owner = io.call)
     /\ mountedUI' /= mountedUI =>
          /\ mountedUI' /= NullUI
          /\ ~io.failed
          /\ io.done = Range(MountStepOrder)]_vars
\* reached: a mount that hid two elements and set the Mount Record
C29_Witness ==
  /\ io.op = "none" /\ io.call > 0 /\ ~io.failed
  /\ io.hidden >= 2
  /\ mountedUI /= NullUI
  /\ RootPresent

\* C30: createUI adds, removes or changes no node of the live document.
C30_CreateUIInMemoryOnly == [][StepCreateUI => dom' = dom]_vars

\* ---------------------------------------------------------------- properties of SpecResponse
\* C10: a stable result is never returned less than the quiet duration (500 ms)
\* after the transcript's last change, and for changes at 100 ms and 300 ms
\* followed by no change it is returned at about 800 ms (within one 200 ms poll).
C10_StableAfterQuiet ==
  (resp.pc = "done" /\ resp.stable) =>
     /\ resp.changeTimes /= <<>> => resp.now >= LastChange(resp) + QuietTicks
     /\ resp.changeTimes = <<1, 3>> =>
          resp.now <= 3 + QuietTicks + PollTicks

\* ---------------------------------------------------------------- properties of SpecResponseFair
\* the transcript has been empty since the call (or the panel does not exist)
StayedEmpty == resp.transcript = "" /\ resp.changeTimes = <<>>

EverChanging == resp.growths >= resp.now

SendTarget == PanelAt(dom, io.args.index)
\* the focus phase of the last send call found the panel and its compose surface
SendFoundInput == SendTarget /= 0 /\ io.pre[SendTarget].input

\* C12: send with clear:true on a compose surface holding earlier text leaves
\* exactly the message there when submit is false, and an empty compose surface
\* when the submit control was clicked.
C12_ClearReplacesContent ==
  (io.op = "send" /\ io.args.clear /\ SendFoundInput /\ io.pre[SendTarget].content /= <<>>) =>
     /\ ~io.args.submit => io.compose[SendTarget].content = io.args.message
     /\ io.clicked => io.compose[SendTarget].content = <<>>

\* C13: when the panel or its compose surface is missing, or focus on the
\* compose surface was not established, send returns sent:false with an error
\* and dispatches no input event.
C13_NoTypingWithoutFocus ==
  (io.op = "send" /\ (~SendFoundInput \/ ~io.env.focused)) =>
     /\ ~io.result.sent
     /\ "error" \in DOMAIN io.result
     /\ io.events = 0

\* C14: send returns sent:true exactly when submit was requested and the submit
\* control was observed enabled after the settle delay, and clicks the control in
\* that case only; otherwise the result is sent:false with buttonEnabled and
\* inputContent.
C14_SentIffSubmitAndEnabled ==
  (io.op = "send" /\ SendFoundInput) =>
     /\ io.result.sent <=> (io.args.submit /\ io.observed)
     /\ io.clicked <=> io.result.sent
     /\ ~io.result.sent =>
          /\ {"buttonEnabled", "inputContent"} \subseteq DOMAIN io.result
          /\ io.result.buttonEnabled = io.observed
\* reached: a typed message whose submit control was enabled and clicked
C14_Witness ==
  /\ io.op = "send" /\ io.result.sent /\ io.clicked
  /\ io.env.focused /\ io.result.message /= <<>>
  /\ io.pre[SendTarget].btn = "disabled"

\* the positions of a kind of step in the last send call's log
StepsAt(kind) == {i \in 1..Len(io.log) : io.log[i].step = kind}
\* the characters of the log's char events, in log order
TypedText ==
  LET chars == SelectSeq(io.log, LAMBDA e : e.step = "char")
  IN [j \in 1..Len(chars) |-> chars[j].text]

\* C27: send's steps come in a fixed order: focus first; the clear keys next when
\* clear is set; one char event per character in message order; the settle
\* delay; the submit-control check; the click, if any, last.  Nothing is
\* dispatched when the focus step returned an error.
C27_SendStepOrder ==
  io.op = "send" =>
    /\ io.log[1].step = "focus" /\ StepsAt("focus") = {1}
    /\ ~SendFoundInput => Len(io.log) = 1
    /\ SendFoundInput =>
         /\ io.log[1].text /= "error"
         /\ StepsAt("key") = (IF io.args.clear THEN 2..(1 + ClearEvents) ELSE {})
         /\ TypedText = io.args.message
         /\ \A i \in StepsAt("key"), j \in StepsAt("char") : i < j
         /\ \E s \in 1..Len(io.log) :
              /\ StepsAt("settle") = {s} /\ StepsAt("check") = {s + 1}
              /\ \A j \in StepsAt("key") \cup StepsAt("char") : j < s
              /\ StepsAt("click") = (IF io.clicked THEN {s + 2} ELSE {})
              /\ Len(io.log) = IF io.clicked THEN s + 2 ELSE s + 1
\* reached: a send that cleared, typed two characters and clicked
C27_Witness ==
  /\ io.op = "send" /\ io.args.clear /\ io.clicked
  /\ Len(io.args.message) = 2 /\ Len(io.log) = 12

C16_ListPanelsIndexed ==
  [][(ListPanelsCall /\ page /= "null") =>
       /\ Len(io'.result.list) = Len(dom.panels)
       /\ \A k \in 1..Len(dom.panels) :
            /\ io'.result.list[k].index = k - 1
            /\ io'.result.list[k].inputContent = io.compose[dom.panels[k]].content
            /\ io'.result.list[k].buttonEnabled = (io.compose[dom.panels[k]].btn = "enabled")]_vars
\* reached: a listing of two panels whose compose surfaces differ
C16_Witness ==
  /\ io.op = "listPanels" /\ ~io.threw /\ Len(io.result.list) >= 2
  /\ io.result.list[1].inputContent /= io.result.list[2].inputContent

\* C17: listPanels() never fails: in every session state it returns a sequence.
C17_ListPanelsNeverFails ==
  io.op = "listPanels" => ~io.threw

\* C18: on a connected session getPanelState(index) never raises; out of range it
\* returns an error field and totalPanels = n, in range the panel's state with
\* no error field and totalPanels = n.
C18_PanelStateErrorField ==
  [][\A index \in Indices : (GetPanelStateCall(index) /\ page /= "null") =>
       /\ ~io'.threw
       /\ io'.result.totalPanels = Len(dom.panels)
       /\ ("error" \in DOMAIN io'.result) <=> (index \notin 0..(Len(dom.panels) - 1))
       /\ index \in 0..(Len(dom.panels) - 1) =>
            /\ io'.result.index = index
            /\ io'.result.inputContent = io.compose[dom.panels[index + 1]].content]_vars
\* reached: an out-of-range query on a document that has panels
C18_Witness ==
  /\ io.op = "getPanelState" /\ ~io.threw /\ "error" \in DOMAIN io.result
  /\ io.result.totalPanels >= 1

\* ---------------------------------------------------------------- properties of SpecSnapshot
\* the message blocks among the children of a rendered conversation area
MessageBlocks(children) == SelectSeq(children, LAMBDA b : b.kind = "message")

\* C19: for every conversation of the snapshot the built sub-panel holds one
\* message block per message, in order, styled by the message's role and showing
\* its text literally; markup text creates no element.
C19_RenderRoundTrip ==
  io.op = "render" =>
    /\ Len(io.rendered) = Len(io.snap.conversations)
    /\ \A k \in DOMAIN io.rendered :
         LET blocks == MessageBlocks(io.rendered[k])
             msgs == io.snap.conversations[k].messages
         IN /\ Len(blocks) = Len(msgs)
            /\ \A j \in DOMAIN msgs :
                 /\ blocks[j].style = (IF msgs[j].role = "user" THEN "#00d4ff" ELSE "#888")
                 /\ blocks[j].text = msgs[j].content
                 /\ blocks[j].elements = 0
\* reached: a rendered conversation of three messages, the first one markup
C19_Witness ==
  /\ io.op = "render" /\ Len(io.rendered) >= 1
  /\ \E k \in DOMAIN io.rendered :
       /\ Len(MessageBlocks(io.rendered[k])) = 3
       /\ io.rendered[k][1].text = Markup /\ io.rendered[k][1].style = "#00d4ff"
       /\ io.rendered[k][2].style = "#888"

\* C20: two successive extract() calls on the unchanged document return snapshots
\* with identical conversations (messages with the same role, text and
\* timestamp, same transcript, same compose text).
C20_ExtractIdempotent ==
  (io.op = "extract" /\ io.prev.taken) => io.snap.conversations = io.prev.conversations

\* C31: createUI builds one sub-panel per conversation of the snapshot, in
\* snapshot order, the k-th carrying index k and the conversation's captured
\* compose text, and the badge shows the number of conversations; with no
\* conversation it builds no sub-panel and exactly one placeholder.
C31_OneSubPanelPerConversation ==
  io.op = "render" =>
    LET cs == io.snap.conversations
        ch == io.tree.children
    IN /\ io.tree.badge = Len(cs)
       /\ Len(SubPanels(ch)) = Len(cs)
       /\ Len(cs) > 0 =>
            /\ Len(ch) = Len(cs)
            /\ \A k \in DOMAIN cs :
                 /\ ch[k].kind = "panel"
                 /\ ch[k].index = cs[k].index
                 /\ ch[k].index = k - 1
                 /\ ch[k].input = cs[k].inputContent
       /\ Len(cs) = 0 => (Len(ch) = 1 /\ ch[1].kind = "placeholder")
\* reached: a tree of two sub-panels, one of them seeded with a draft
C31_Witness ==
  /\ io.op = "render" /\ Len(io.tree.children) = 2 /\ io.tree.badge = 2
  /\ io.tree.children[2].index = 1
  /\ \E k \in 1..2 : io.tree.children[k].input = <<"d">>

====
